---- MODULE Spec2Model ----
(***************************************************************************)
(* Model of src/application/app.py: the resume optimisation pipeline of    *)
(* generator_page (decode, score, rewrite, cover letter, re-score, save,   *)
(* result bundle, results display), the Astra DB transaction store with    *)
(* its cached, retried provisioning (get_db_collection), and the audit     *)
(* listing of admin_page.                                                  *)
(*                                                                         *)
(* One Streamlit session is modelled.  Each script execution is a walk of  *)
(* pc from "idle" back to "idle"; the variables written by an execution    *)
(* keep their values until the next execution starts, so a finished run    *)
(* can be inspected.                                                       *)
(***************************************************************************)
EXTENDS Integers, Sequences, FiniteSets, TLC

\* ------------------------------------------------------------------ bounds
MaxRuns == 2        \* button clicks ("Generate Application") per behaviour

\* -------------------------------------------------------- program constants
max_retries == 3    \* get_db_collection: attempts of the provisioning loop
FETCH_LIMIT == 50   \* fetch_transactions: limit of the find() call

\* ------------------------------------------------------------------- texts
\* A text is a record; "empty" is Python's "" and "none" is Python's None.
\* Texts produced by the decoder and by the model backend are uninterpreted:
\* they are told apart by their kind and by the run that produced them.
Text(k, i) == [kind |-> k, id |-> i]
EmptyText == Text("empty", 0)
NoneText == Text("none", 0)

\* Python truthiness of a str-or-None value (if not resume_text).
Truthy(t) == t.kind \notin {"empty", "none"}

\* ------------------------------------------------------------- JSON values
\* A scalar stored under "match_score": a number, a string, or no such key.
Num(n) == [k |-> "num", n |-> n]
StrScore == [k |-> "str", n |-> 0]
Absent == [k |-> "absent", n |-> 0]

\* The value under "tips": a list of strings, or no such key.
Tips(s) == [has |-> TRUE, v |-> s]
NoTips == [has |-> FALSE, v |-> <<>>]

\* A parsed JSON value: an object with optional keys, or a non-object.
Obj(ms, tips) == [type |-> "object", match_score |-> ms, tips |-> tips]
JArray == [type |-> "array", match_score |-> Absent, tips |-> NoTips]

JValid == Obj(Num(73), Tips(<<"add metrics">>))
JOutOfRange == Obj(Num(150), Tips(<<"add metrics">>))
JNonNumeric == Obj(StrScore, NoTips)
JNoScore == Obj(Absent, Tips(<<>>))

\* What the scoring backend may answer: the raw text as a sequence of pieces
\* ("J" is the JSON document, "x" is prose around it, "FENCE" is a Markdown
\* code fence of three backquotes), and the JSON value the
\* document holds; or the call raises.
Fenced == <<"FENCE", "json", "J", "FENCE">>
ScoringReplies ==
    {[call |-> "ok", text |-> <<"J">>, json |-> j] :
        j \in {JValid, JOutOfRange, JNonNumeric, JNoScore, JArray}}
    \cup {[call |-> "ok", text |-> Fenced, json |-> JValid],
          [call |-> "ok", text |-> <<"x", "J">>, json |-> JValid],
          [call |-> "raise", text |-> <<>>, json |-> JArray]}

\* str.replace(old, "") on a text given as pieces: every non-overlapping
\* occurrence of the piece sequence old, left to right, is removed.
RECURSIVE Replace(_, _)
Replace(s, old) ==
    IF Len(s) < Len(old) THEN s
    ELSE IF SubSeq(s, 1, Len(old)) = old
         THEN Replace(SubSeq(s, Len(old) + 1, Len(s)), old)
         ELSE <<Head(s)>> \o Replace(Tail(s), old)

\* Line 160: every FENCE json is removed from the text, then every FENCE.
CleanText(text) == Replace(Replace(text, <<"FENCE", "json">>), <<"FENCE">>)

\* json.loads succeeds exactly when the cleaned text is the JSON document.
Parses(clean) == clean = <<"J">>

\* The dictionaries analyze_resume returns without asking the backend.
NoModelAnalysis == Obj(Num(0), Tips(<<>>))
ErrorAnalysis == Obj(Num(0), Tips(<<"Error analyzing resume">>))

\* dict.get(key, default) on an analysis; only meaningful on a dict.
IsDict(a) == a.type = "object"
GetScore(a) == IF a.match_score.k = "absent" THEN Num(0) ELSE a.match_score
GetTips(a, default) == IF a.tips.has THEN a.tips.v ELSE default

NoAnalysis == [type |-> "unset", match_score |-> Absent, tips |-> NoTips]

\* --------------------------------------------------------- cover letter style
\* generate_cover_letter: the length_prompt dictionary (lines 186-190).
LengthOptions == {"Condensed", "Medium", "Elaborate"}
length_prompt ==
    [l \in LengthOptions |->
        CASE l = "Condensed" -> "Keep it under 200 words. Punchy and direct."
          [] l = "Medium" -> "Standard professional length (300 words). Balanced."
          [] l = "Elaborate" ->
                "Detailed storytelling (450+ words). Deep dive into achievements."]

\* Line 194: length_prompt.get(length_type, "Medium"), the text put after
\* "Style: " in the prompt.
StyleOf(length_type) ==
    IF length_type \in DOMAIN length_prompt THEN length_prompt[length_type]
    ELSE "Medium"

\* ------------------------------------------------------ exception messages
\* str(e) of an exception raised by the store client, as a sequence of
\* characters: "Timeout", "timed out" and "401".
MsgTimeout == <<"T", "i", "m", "e", "o", "u", "t">>
MsgTimedOut == <<"t", "i", "m", "e", "d", " ", "o", "u", "t">>
MsgDenied == <<"4", "0", "1">>
Messages == {MsgTimeout, MsgTimedOut, MsgDenied}

\* str.lower() on the characters the messages use.
LowerChar(c) == IF c = "T" THEN "t" ELSE c
Lower(s) == [i \in 1..Len(s) |-> LowerChar(s[i])]

\* sub in s
Contains(s, sub) ==
    \E i \in 0..(Len(s) - Len(sub)) : SubSeq(s, i + 1, i + Len(sub)) = sub

\* Line 68: "timeout" in str(e).lower()
IsTimeout(msg) == Contains(Lower(msg), <<"t", "i", "m", "e", "o", "u", "t">>)

\* What one pass of the provisioning loop (lines 42-71) can meet: the
\* collection handle is returned, or one of its store calls raises.
AttemptOutcomes ==
    {[ok |-> TRUE, at |-> "return", msg |-> <<>>]}
    \cup [ok : {FALSE}, at : {"list", "create", "get"}, msg : Messages]

\* ------------------------------------------------------------------- state
VARIABLES
    secrets,            \* st.secrets: which credentials are configured
    pc,                 \* position of the running script ("idle": none runs)
    runs,               \* submissions made so far (also the clock)
    inp,                \* the widgets: uploaded_file, jd_text, cl_length
    resume_text,        \* generator_page locals
    original_analysis,
    optimized_text,
    cover_letter_text,
    new_analysis,
    cl_style,           \* the style directive of the last cover letter prompt
    calls,              \* service calls of this execution, in order
    notices,            \* st.error / st.warning messages of this execution
    status,             \* the st.status box: none, running, error, complete
    exc,                \* the exception that ended this execution, or "none"
    saveRet,            \* what save_transaction_to_db returned this execution
    generated,          \* st.session_state.generated
    rendered,           \* the documents the results display showed
    store,              \* the documents of the Astra DB collection
    collExists,         \* the collection exists in the database
    dbCache,            \* st.cache_resource entry of get_db_collection
    prov,               \* the running or last provisioning call
    listed              \* the transactions the admin page lists

vars == <<secrets, pc, runs, inp, resume_text, original_analysis,
          optimized_text, cover_letter_text, new_analysis, cl_style, calls,
          notices, status, exc, saveRet, generated, rendered, store,
          collExists, dbCache, prov, listed>>

NoGenerated == [set |-> FALSE, original_stats |-> NoAnalysis,
                new_stats |-> NoAnalysis, optimized_resume |-> NoneText,
                cover_letter |-> NoneText]
NoRendered == [shown |-> FALSE, optimized_resume |-> NoneText,
               cover_letter |-> NoneText]
NoProv == [log |-> <<>>, sleeps |-> 0, result |-> "unset", caller |-> "none"]
NoInput == [file |-> "none", jd |-> "", cl_length |-> "Medium"]

\* The locals of a script execution before it has assigned them.
FreshLocals ==
    /\ resume_text' = NoneText
    /\ original_analysis' = NoAnalysis
    /\ optimized_text' = NoneText
    /\ cover_letter_text' = NoneText
    /\ new_analysis' = NoAnalysis
    /\ cl_style' = ""
    /\ calls' = <<>>
    /\ saveRet' = "not called"
    /\ listed' = <<>>

Init ==
    /\ secrets \in [google : BOOLEAN, astra : BOOLEAN]
    /\ pc = "idle"
    /\ runs = 0
    /\ inp = NoInput
    /\ resume_text = NoneText
    /\ original_analysis = NoAnalysis
    /\ optimized_text = NoneText
    /\ cover_letter_text = NoneText
    /\ new_analysis = NoAnalysis
    /\ cl_style = ""
    /\ calls = <<>>
    /\ notices = <<>>
    /\ status = "none"
    /\ exc = "none"
    /\ saveRet = "not called"
    /\ generated = NoGenerated
    /\ rendered = NoRendered
    /\ store = <<>>
    /\ collExists \in BOOLEAN
    /\ dbCache = "unset"
    /\ prov = NoProv
    /\ listed = <<>>

\* ---------------------------------------------------------------- services
\* get_gemini_model (lines 135-143): a model, or None with an error notice
\* when the key is not in the secrets.
HasModel == secrets.google
ModelNotices == IF HasModel THEN <<>> ELSE <<"Google API Key not found in secrets.">>

\* extract_text (lines 97-110) on the uploaded file: the text of a readable
\* file, "" for a file without extractable text, None when the reader raises.
ExtractText(file, n) ==
    CASE file = "good" -> Text("resume", n)
      [] file = "blank" -> EmptyText
      [] OTHER -> NoneText
ExtractNotices(file) ==
    IF file = "corrupt" THEN <<"Error reading file">> ELSE <<>>

\* analyze_resume (lines 145-164): the value returned for a backend reply.
AnalyzeResume(reply) ==
    IF ~HasModel THEN NoModelAnalysis
    ELSE IF reply.call = "raise" THEN ErrorAnalysis
    ELSE IF Parses(CleanText(reply.text)) THEN reply.json
    ELSE ErrorAnalysis

\* analyze_resume: the notices it shows (st.error at lines 142 and 163).
AnalyzeNotices(reply) ==
    IF ~HasModel THEN ModelNotices
    ELSE IF reply.call = "raise" THEN <<"Analysis Error: backend call failed">>
    ELSE IF Parses(CleanText(reply.text)) THEN <<>>
    ELSE <<"Analysis Error: JSONDecodeError">>

\* Without a model analyze_resume returns before it asks the backend, so
\* only one reply is told apart then.
RepliesAsked == IF HasModel THEN ScoringReplies
                ELSE {[call |-> "raise", text |-> <<>>, json |-> JArray]}

\* Lines 256-269: the document generator_page hands to the store.
TransactionData ==
    [timestamp |-> runs,
     job_description |-> inp.jd,
     original_score |-> GetScore(original_analysis),
     optimized_score |-> GetScore(new_analysis),
     improvements |-> GetTips(original_analysis, <<>>),
     original_resume_text |-> resume_text,
     generated_resume |-> optimized_text,
     generated_cover_letter |-> cover_letter_text]

\* Lines 274-279: the result bundle kept in the session state.
ResultBundle ==
    [set |-> TRUE,
     original_stats |-> original_analysis,
     new_stats |-> new_analysis,
     optimized_resume |-> optimized_text,
     cover_letter |-> cover_letter_text]

\* Lines 284-324, the results display: the exception it ends with.  The
\* delta of line 295 subtracts the two scores; line 297 takes tips[0].
RenderExc(gen) ==
    IF GetScore(gen.new_stats).k # "num" \/ GetScore(gen.original_stats).k # "num"
    THEN "TypeError"
    ELSE IF GetTips(gen.original_stats, <<"">>) = <<>> THEN "IndexError"
    ELSE "none"

\* Lines 300-324: the two documents shown and offered for download.
RenderDocs(gen) ==
    IF gen.set /\ RenderExc(gen) = "none"
    THEN [shown |-> TRUE, optimized_resume |-> gen.optimized_resume,
          cover_letter |-> gen.cover_letter]
    ELSE NoRendered

\* collection.find({}, sort={"timestamp": -1}, limit=n) on the documents.
RECURSIVE SortDesc(_)
SortDesc(docs) ==
    IF docs = <<>> THEN <<>>
    ELSE LET i == CHOOSE i \in 1..Len(docs) :
                    \A j \in 1..Len(docs) : docs[j].timestamp <= docs[i].timestamp
             rest == [j \in 1..(Len(docs) - 1) |->
                        IF j < i THEN docs[j] ELSE docs[j + 1]]
         IN <<docs[i]>> \o SortDesc(rest)
FindRecent(docs, n) ==
    LET sorted == SortDesc(docs)
    IN SubSeq(sorted, 1, IF Len(sorted) < n THEN Len(sorted) ELSE n)

\* ------------------------------------------------------- generator_page
Persistent == <<secrets, generated, store, collExists, dbCache>>

\* Lines 225-230: the button is clicked with the widgets' values.
ClickGenerate ==
    /\ pc = "idle"
    /\ runs < MaxRuns
    /\ \E f \in {"none", "good", "blank", "corrupt"}, jd \in {"", "JD"},
          l \in LengthOptions :
        /\ inp' = [file |-> f, jd |-> jd, cl_length |-> l]
        /\ IF f = "none" \/ jd = ""
           THEN /\ notices' = <<"Please provide both a resume and a job description.">>
                /\ status' = "none"
                /\ pc' = "idle"
           ELSE /\ notices' = <<>>
                /\ status' = "running"
                /\ pc' = "decode"
    /\ runs' = runs + 1
    /\ exc' = "none"
    /\ prov' = NoProv
    /\ rendered' = NoRendered
    /\ FreshLocals
    /\ UNCHANGED Persistent

\* An exception leaves generator_page: the script execution ends.
Raise(e) ==
    /\ exc' = e
    /\ pc' = "idle"

\* Lines 235-237: where the run goes after the decoder returned text.
AfterDecodeAlways(text) == "score_original"
AfterDecode(text) == IF Truthy(text) THEN "score_original" ELSE "idle"

\* Lines 231-237: stage 1, extract the text; return when there is none.
Decode ==
    /\ pc = "decode"
    /\ resume_text' = ExtractText(inp.file, runs)
    /\ calls' = Append(calls, [fn |-> "extract_text", arg |-> NoneText])
    /\ notices' = notices \o ExtractNotices(inp.file)
    /\ pc' = AfterDecode(resume_text')
    /\ status' = IF Truthy(resume_text') THEN status ELSE "error"
    /\ UNCHANGED <<runs, inp, original_analysis, optimized_text,
                   cover_letter_text, new_analysis, cl_style, exc, saveRet,
                   rendered, prov, listed, Persistent>>

\* Lines 239-241: stage 2, analyze_resume(resume_text, jd_text).
ScoreOriginal ==
    /\ pc = "score_original"
    /\ \E reply \in RepliesAsked :
        /\ original_analysis' = AnalyzeResume(reply)
        /\ notices' = notices \o AnalyzeNotices(reply)
    /\ calls' = Append(calls, [fn |-> "analyze_resume", arg |-> resume_text])
    /\ pc' = "optimize"
    /\ UNCHANGED <<runs, inp, resume_text, optimized_text,
                   cover_letter_text, new_analysis, cl_style, status, exc,
                   saveRet, rendered, prov, listed, Persistent>>

\* Lines 243-245 and 166-180: stage 3, optimize_resume(resume_text, jd_text).
\* Without a model it returns ""; a failing backend call is not caught.
OptimizeResume ==
    /\ pc = "optimize"
    /\ calls' = Append(calls, [fn |-> "optimize_resume", arg |-> resume_text])
    /\ notices' = notices \o ModelNotices
    /\ \/ /\ ~HasModel
          /\ optimized_text' = EmptyText
          /\ pc' = "cover_letter"
          /\ exc' = exc
       \/ /\ HasModel
          /\ optimized_text' = Text("optimized", runs)
          /\ pc' = "cover_letter"
          /\ exc' = exc
       \/ /\ HasModel
          /\ optimized_text' = optimized_text
          /\ Raise("BackendError")
    /\ UNCHANGED <<runs, inp, resume_text, original_analysis,
                   cover_letter_text, new_analysis, cl_style, status, saveRet,
                   rendered, prov, listed, Persistent>>

\* generate_cover_letter (lines 182-201) called with a text and a length
\* preference: the style directive it puts in the prompt and what it returns.
GenerateCoverLetter(length_type, next) ==
    /\ calls' = Append(calls, [fn |-> "generate_cover_letter", arg |-> resume_text])
    /\ notices' = notices \o ModelNotices
    /\ \/ /\ ~HasModel
          /\ cover_letter_text' = EmptyText
          /\ cl_style' = cl_style
          /\ pc' = next
          /\ exc' = exc
       \/ /\ HasModel
          /\ cl_style' = StyleOf(length_type)
          /\ cover_letter_text' = Text("cover letter", runs)
          /\ pc' = next
          /\ exc' = exc
       \/ /\ HasModel
          /\ cl_style' = StyleOf(length_type)
          /\ cover_letter_text' = cover_letter_text
          /\ Raise("BackendError")

\* Line 246: stage 4, generate_cover_letter(resume_text, jd_text, cl_length).
CoverLetter ==
    /\ pc = "cover_letter"
    /\ GenerateCoverLetter(inp.cl_length, "score_optimized")
    /\ UNCHANGED <<runs, inp, resume_text, original_analysis,
                   optimized_text, new_analysis, status, saveRet, rendered,
                   prov, listed, Persistent>>

\* Line 250: the text handed to the second analyze_resume call.
RescoreInputOriginal == resume_text
RescoreInput == optimized_text

\* Lines 248-250: stage 5, analyze_resume(optimized_text, jd_text).
ScoreOptimized ==
    /\ pc = "score_optimized"
    /\ \E reply \in RepliesAsked :
        /\ new_analysis' = AnalyzeResume(reply)
        /\ notices' = notices \o AnalyzeNotices(reply)
    /\ calls' = Append(calls, [fn |-> "analyze_resume", arg |-> RescoreInput])
    /\ pc' = "save"
    /\ UNCHANGED <<runs, inp, resume_text, original_analysis,
                   optimized_text, cover_letter_text, cl_style, status, exc,
                   saveRet, rendered, prov, listed, Persistent>>

\* ------------------------------------------------------- get_db_collection
\* Line 68: the condition under which a failed attempt is tried again.
ShouldRetryAny(msg, attempt) == attempt < max_retries - 1
ShouldRetry(msg, attempt) == IsTimeout(msg) /\ attempt < max_retries - 1

\* A call of the cached get_db_collection (lines 22-33) by save or fetch:
\* the cached value when there is one, None when the secrets are missing,
\* otherwise the provisioning loop starts.
EnterGetDb(caller) ==
    IF dbCache # "unset"
    THEN /\ prov' = [NoProv EXCEPT !.caller = caller, !.result = "cached"]
         /\ pc' = "got_collection"
         /\ dbCache' = dbCache
    ELSE IF ~secrets.astra
    THEN /\ prov' = [NoProv EXCEPT !.caller = caller, !.result = "none"]
         /\ pc' = "got_collection"
         /\ dbCache' = "none"
    ELSE /\ prov' = [NoProv EXCEPT !.caller = caller, !.result = "running"]
         /\ pc' = "provision"
         /\ dbCache' = dbCache

\* Lines 41-72: one pass of the provisioning loop.  attempt counts from 0.
ProvisionAttempt ==
    /\ pc = "provision"
    /\ \E o \in AttemptOutcomes :
        LET attempt == Len(prov.log)
            log == Append(prov.log, o)
        IN /\ (o.at = "create") => ~collExists
           /\ collExists' = (collExists \/ o.ok \/ o.at = "get")
           /\ IF o.ok
              THEN /\ prov' = [prov EXCEPT !.log = log, !.result = "handle"]
                   /\ dbCache' = "handle"
                   /\ pc' = "got_collection"
              ELSE IF ShouldRetry(o.msg, attempt) /\ attempt + 1 < max_retries
              THEN /\ prov' = [prov EXCEPT !.log = log, !.sleeps = @ + 1]
                   /\ dbCache' = dbCache
                   /\ pc' = "provision"
              ELSE /\ prov' = [prov EXCEPT !.log = log, !.result = "none",
                                 !.sleeps = IF ShouldRetry(o.msg, attempt)
                                            THEN @ + 1 ELSE @]
                   /\ dbCache' = "none"
                   /\ pc' = "got_collection"
    /\ UNCHANGED <<secrets, runs, inp, resume_text, original_analysis,
                   optimized_text, cover_letter_text, new_analysis, cl_style,
                   calls, notices, status, exc, saveRet, generated, rendered,
                   store, listed>>

\* ---------------------------------------------------- stage 6 and delivery
\* Lines 252-271 and 74-75: build the document (the .get calls need both
\* analyses to be dictionaries) and call save_transaction_to_db.
SaveTransaction ==
    /\ pc = "save"
    /\ IF IsDict(original_analysis) /\ IsDict(new_analysis)
       THEN /\ calls' = Append(calls, [fn |-> "save_transaction_to_db",
                                       arg |-> optimized_text])
            /\ EnterGetDb("save")
            /\ exc' = exc
       ELSE /\ Raise("AttributeError")
            /\ UNCHANGED <<calls, prov, dbCache>>
    /\ UNCHANGED <<secrets, runs, inp, resume_text, original_analysis,
                   optimized_text, cover_letter_text, new_analysis, cl_style,
                   notices, status, saveRet, generated, rendered, store,
                   collExists, listed>>

\* Line 78: the collection after insert_one(data).
InsertedStoreReplacing == <<TransactionData>>
InsertedStore == Append(store, TransactionData)

\* Lines 80-82: insert_one raised; the error is shown and False returned.
InsertRaisesUncaught ==
    /\ store' = store
    /\ saveRet' = saveRet
    /\ notices' = notices
    /\ Raise("InsertError")
InsertRaises ==
    /\ store' = store
    /\ saveRet' = "False"
    /\ notices' = Append(notices, "DB Save Error")
    /\ pc' = "bundle"
    /\ exc' = exc

\* Lines 76-83: insert_one on the collection, if there is one.
InsertOne ==
    /\ pc = "got_collection"
    /\ prov.caller = "save"
    /\ \/ /\ dbCache = "handle"
          /\ store' = InsertedStore
          /\ saveRet' = "True"
          /\ notices' = notices
          /\ pc' = "bundle"
          /\ exc' = exc
       \/ /\ dbCache = "handle"
          /\ InsertRaises
       \/ /\ dbCache # "handle"
          /\ store' = store
          /\ saveRet' = "False"
          /\ notices' = notices
          /\ pc' = "bundle"
          /\ exc' = exc
    /\ prov' = NoProv
    /\ UNCHANGED <<secrets, runs, inp, resume_text, original_analysis,
                   optimized_text, cover_letter_text, new_analysis, cl_style,
                   calls, status, generated, rendered, collExists,
                   dbCache, listed>>

\* Lines 273-324: keep the result bundle in the session state, mark the
\* status box complete, then show the results.
Deliver ==
    /\ pc = "bundle"
    /\ generated' = ResultBundle
    /\ status' = "complete"
    /\ exc' = RenderExc(generated')
    /\ rendered' = RenderDocs(generated')
    /\ pc' = "idle"
    /\ UNCHANGED <<secrets, runs, inp, resume_text, original_analysis,
                   optimized_text, cover_letter_text, new_analysis, cl_style,
                   calls, notices, saveRet, store, collExists, dbCache, prov,
                   listed>>

\* The script runs again without a click (any other widget interaction):
\* lines 205-225 and 283-324, the results of the session state are shown.
Rerun ==
    /\ pc = "idle"
    /\ notices' = <<>>
    /\ status' = "none"
    /\ exc' = IF generated.set THEN RenderExc(generated) ELSE "none"
    /\ rendered' = RenderDocs(generated)
    /\ prov' = NoProv
    /\ pc' = "idle"
    /\ FreshLocals
    /\ UNCHANGED <<runs, inp, Persistent>>

\* --------------------------------------------------------------- admin_page
\* Lines 326-342 and 85-87: with the right password the page calls
\* fetch_transactions, which asks for the collection.
AdminOpen ==
    /\ pc = "idle"
    /\ notices' = <<>>
    /\ status' = "none"
    /\ exc' = "none"
    /\ rendered' = NoRendered
    /\ FreshLocals
    /\ \/ EnterGetDb("fetch")
       \/ /\ pc' = "idle"
          /\ prov' = NoProv
          /\ dbCache' = dbCache
    /\ UNCHANGED <<secrets, runs, inp, generated, store, collExists>>

\* Lines 87-93 and 344-387: the newest documents, or [] without a collection
\* or when find raises; the page then shows them and one in detail.
Find ==
    /\ pc = "got_collection"
    /\ prov.caller = "fetch"
    /\ \/ /\ dbCache = "handle"
          /\ listed' = FindRecent(store, FETCH_LIMIT)
       \/ /\ dbCache = "handle"
          /\ listed' = <<>>
       \/ /\ dbCache # "handle"
          /\ listed' = <<>>
    /\ pc' = "idle"
    /\ prov' = NoProv
    /\ UNCHANGED <<secrets, runs, inp, resume_text, original_analysis,
                   optimized_text, cover_letter_text, new_analysis, cl_style,
                   calls, notices, status, exc, saveRet, generated, rendered,
                   store, collExists, dbCache>>

Next ==
    \/ ClickGenerate
    \/ Decode
    \/ ScoreOriginal
    \/ OptimizeResume
    \/ CoverLetter
    \/ ScoreOptimized
    \/ SaveTransaction
    \/ ProvisionAttempt
    \/ InsertOne
    \/ Deliver
    \/ Rerun
    \/ AdminOpen
    \/ Find

Spec == Init /\ [][Next]_vars

\* ------------------------------------------- generate_cover_letter, alone
\* generate_cover_letter is a module-level function: it is also checked on
\* its own, called with any length preference, the three of the slider and
\* values the slider cannot give.
MaxTexts == 3
AnyLength == LengthOptions \cup {"Brief", ""}

InitCoverLetter ==
    /\ secrets \in [google : BOOLEAN, astra : BOOLEAN]
    /\ pc = "call"
    /\ runs \in 1..MaxTexts
    /\ inp \in [file : {"good"}, jd : {"JD", "JD 2"}, cl_length : AnyLength]
    /\ resume_text = Text("resume", runs)
    /\ original_analysis = NoAnalysis
    /\ optimized_text = NoneText
    /\ cover_letter_text = NoneText
    /\ new_analysis = NoAnalysis
    /\ cl_style = ""
    /\ calls = <<>>
    /\ notices = <<>>
    /\ status = "none"
    /\ exc = "none"
    /\ saveRet = "not called"
    /\ generated = NoGenerated
    /\ rendered = NoRendered
    /\ store = <<>>
    /\ collExists = FALSE
    /\ dbCache = "unset"
    /\ prov = NoProv
    /\ listed = <<>>

CallGenerateCoverLetter ==
    /\ pc = "call"
    /\ GenerateCoverLetter(inp.cl_length, "returned")
    /\ UNCHANGED <<runs, inp, resume_text, original_analysis, optimized_text,
                   new_analysis, status, saveRet, rendered, prov, listed,
                   Persistent>>

SpecCoverLetter == InitCoverLetter /\ [][CallGenerateCoverLetter]_vars

\* ================================================================ claims
Fns(cs) == [i \in 1..Len(cs) |-> cs[i].fn]
StageOrder == <<"extract_text", "analyze_resume", "optimize_resume",
                "generate_cover_letter", "analyze_resume",
                "save_transaction_to_db">>
StoredAt(n) == {i \in 1..Len(store) : store[i].timestamp = n}
InNotices(m) == \E i \in 1..Len(notices) : notices[i] = m

\* C1: when stage 1 (decode) yields no text, or the backend call of stage 3
\* (resume rewrite) or stage 4 (cover letter) fails, the run has ended in a
\* fatal error: the failed stage is the last one that executed, save was not
\* called and stored nothing for this run, and no result bundle of this run
\* was kept or shown.
DecodeFailed == Len(calls) >= 1 /\ ~Truthy(resume_text)
RewriteFailed == exc = "BackendError"
C1_FatalStageAbortsRun ==
    (DecodeFailed \/ RewriteFailed) =>
        /\ pc = "idle"
        /\ status # "complete"
        /\ DecodeFailed => (Fns(calls) = SubSeq(StageOrder, 1, 1) /\ status = "error")
        /\ RewriteFailed =>
              \/ Fns(calls) = SubSeq(StageOrder, 1, 3)
              \/ Fns(calls) = SubSeq(StageOrder, 1, 4)
        /\ saveRet = "not called"
        /\ StoredAt(runs) = {}
        /\ ~rendered.shown
        /\ generated.set =>
              /\ generated.optimized_resume # Text("optimized", runs)
              /\ generated.cover_letter # Text("cover letter", runs)
C1_Witness ==
    /\ RewriteFailed
    /\ Fns(calls) = SubSeq(StageOrder, 1, 4)
    /\ runs = 2
    /\ Len(store) = 1
    /\ generated.set

\* C2: when save_transaction_to_db was called and stored nothing (insert
\* error, unavailable store, no collection handle), it returned False, the
\* run is not aborted and the result is not lost: the run goes on to
\* completion, the result bundle holds exactly
\* the resume and cover letter texts the Rewrite Service returned in this
\* run, and the results display shows these texts unless the display itself
\* raises (lines 295 and 297, which do not read the outcome of save).
SaveFailed ==
    /\ Fns(calls) = StageOrder
    /\ pc \in {"bundle", "idle"}
    /\ StoredAt(runs) = {}
C3_SaveFailureIsSignalled ==
    (/\ pc = "idle"
     /\ saveRet = "False"
     /\ secrets.google /\ secrets.astra
     /\ rendered.shown) => InNotices("DB Save Error")

\* C4: when the scoring backend call fails, answers invalid JSON, or answers
\* JSON without match_score (an empty tips list and a non-object value
\* included), the score is 0 and the run is not aborted: it goes through
\* save to the delivery of the result.
Degraded(a) == a \in {ErrorAnalysis, JNoScore, JArray}
C4_ScoringNeverAborts ==
    (/\ pc = "idle"
     /\ HasModel
     /\ Len(calls) >= 5
     /\ original_analysis \in {JValid, ErrorAnalysis, JNoScore, JArray}
     /\ new_analysis \in {JValid, ErrorAnalysis, JNoScore, JArray}
     /\ Degraded(original_analysis) \/ Degraded(new_analysis)) =>
        /\ exc = "none"
        /\ saveRet # "not called"
        /\ generated.set
        /\ rendered.shown
        /\ Degraded(original_analysis) =>
              GetScore(generated.original_stats) = Num(0)
        /\ Degraded(new_analysis) => GetScore(generated.new_stats) = Num(0)

\* C5: a provisioning call makes at most three attempts; every attempt
\* before the last one failed with a timeout message; the call ends with the
\* collection handle exactly when its last attempt succeeded, and with the
\* store unavailable on a failure that is no timeout or on the third
\* timeout; it slept once for every retry.
IsRetried(o) == ~o.ok /\ o.msg = MsgTimeout
C5_ProvisioningBounded ==
    LET log == prov.log
        n == Len(log)
    IN /\ n <= 3
       /\ \A i \in 1..(n - 1) : IsRetried(log[i])
       /\ prov.result = "running" =>
             /\ pc = "provision"
             /\ n < 3
             /\ prov.sleeps = n
             /\ \A i \in 1..n : IsRetried(log[i])
       /\ prov.result = "handle" =>
             /\ n >= 1
             /\ log[n].ok
             /\ prov.sleeps = n - 1
             /\ dbCache = "handle"
       /\ (prov.result = "none" /\ n >= 1) =>
             /\ ~log[n].ok
             /\ (~IsRetried(log[n])) \/ n = 3
             /\ prov.sleeps = n - 1
             /\ dbCache = "none"
       /\ (n >= 1 /\ log[n].ok) => prov.result = "handle"
       /\ (n >= 1 /\ ~log[n].ok /\ ~IsRetried(log[n])) => prov.result = "none"
       /\ n = 3 => prov.result \in {"handle", "none"}
C5_Witness ==
    /\ prov.result = "none"
    /\ Len(prov.log) = 3
    /\ IsRetried(prov.log[3])

\* C6: the stages of a run execute in the order decode, score original,
\* rewrite, cover letter, re-score, save, each once and none skipped; the
\* first scoring is given the decoded text and the re-score is given the
\* rewritten resume of stage 3.
C6_StagesInOrder ==
    /\ Len(calls) <= Len(StageOrder)
    /\ Fns(calls) = SubSeq(StageOrder, 1, Len(calls))
    /\ Len(calls) >= 2 => (calls[2].arg = resume_text /\ Truthy(resume_text))
    /\ Len(calls) >= 5 =>
          /\ calls[5].arg = optimized_text
          /\ HasModel => calls[5].arg = Text("optimized", runs)
    /\ (saveRet # "not called" \/ prov.caller = "save") => Fns(calls) = StageOrder
C6_Witness ==
    /\ saveRet = "True"
    /\ Fns(calls) = StageOrder
    /\ HasModel
    /\ calls[5].arg = Text("optimized", runs)

\* C7: with the credentials of the model backend or of the store missing,
\* the run does not start: no stage produces output, no transaction is
\* saved and no result bundle is delivered.
C7_NoRunWithoutCredentials ==
    (~secrets.google \/ ~secrets.astra) =>
        /\ original_analysis = NoAnalysis
        /\ new_analysis = NoAnalysis
        /\ optimized_text = NoneText
        /\ cover_letter_text = NoneText
        /\ saveRet = "not called"
        /\ store = <<>>
        /\ ~generated.set
        /\ ~rendered.shown

\* C8: every score the Scoring Service returns, and every original and
\* optimized score of a result bundle or of a stored transaction, is an
\* integer from 0 to 100.
InRange(sc) == sc.k = "num" /\ sc.n \in 0..100
C8_ScoresInRange ==
    /\ IsDict(original_analysis) => InRange(GetScore(original_analysis))
    /\ IsDict(new_analysis) => InRange(GetScore(new_analysis))
    /\ generated.set =>
          /\ InRange(GetScore(generated.original_stats))
          /\ InRange(GetScore(generated.new_stats))
    /\ \A i \in 1..Len(store) :
          InRange(store[i].original_score) /\ InRange(store[i].optimized_score)

\* C9: the prompt of generate_cover_letter carries the style directive of
\* the given length preference, and for a preference that is none of the
\* three it carries the directive of the standard (Medium) preference.
C9_UnrecognizedFallsBackToStandard ==
    (pc = "returned" /\ HasModel) =>
        cl_style = IF inp.cl_length \in LengthOptions
                   THEN length_prompt[inp.cl_length]
                   ELSE length_prompt["Medium"]

\* C10: a step changes the store only by appending one transaction, the one
\* of the current run, which has none stored yet and has executed stages 1
\* to 5 and called save; listing and viewing transactions, and every other
\* step, leave the stored transactions as they are.
C10_StoreAppendOnly ==
    [][\/ store' = store
       \/ /\ Len(store') = Len(store) + 1
          /\ SubSeq(store', 1, Len(store)) = store
          /\ store'[Len(store')].timestamp = runs
          /\ StoredAt(runs) = {}
          /\ Fns(calls) = StageOrder
          /\ Truthy(resume_text)
          /\ IsDict(original_analysis) /\ IsDict(new_analysis)
          /\ store'[Len(store')].generated_resume = optimized_text
          /\ store'[Len(store')].generated_cover_letter = cover_letter_text]_vars
C10_Witness ==
    /\ Len(store) = 2
    /\ Len(listed) = 2
    /\ listed[1].timestamp = 2
    /\ listed[2] = store[1]

====
